---------------------------- MODULE Spec2Model ----------------------------
(***************************************************************************)
(* State-machine model of the Experience component of portfolio-kab.       *)
(*                                                                         *)
(* Two revisions of the component are in the repository:                   *)
(*   src/unnamed/part_000            hover springs, camera fly-to, scale   *)
(*                                   track filter, guarded clip cursor     *)
(*   src/src/components/Experience.tsx   track remapper, unguarded cursor, *)
(*                                   unconditional orbit-target clamp      *)
(*                                                                         *)
(* JavaScript numbers are modelled as exact rationals <<n, d>> in lowest   *)
(* terms; strings as sequences of one-character strings, so that split,    *)
(* includes and the /_Baked$/i replacement are computed, not assumed.      *)
(***************************************************************************)
EXTENDS Integers, Sequences, FiniteSets, TLC

(***************************************************************************)
(* Bounds of the model.                                                    *)
(***************************************************************************)
\* frames a behaviour may run (denominators grow by a factor per frame)
MaxFrames == 4
\* runs of the initialization effect in a behaviour
MaxInits == 2
\* clicks on a sign in a behaviour
MaxClicks == 2
\* external orbit inputs in a behaviour
MaxOrbitInputs == 1
\* renders of the component in a behaviour
MaxRenders == 2
\* nodes of a scene drawn for the track remapper
MaxSceneNodes == 3
\* master loops a behaviour may complete
MaxLoops == 6

(***************************************************************************)
(* Rational arithmetic.                                                    *)
(***************************************************************************)
Abs(i) == IF i < 0 THEN -i ELSE i

RECURSIVE Gcd(_, _)
Gcd(a, b) == IF b = 0 THEN a ELSE Gcd(b, a % b)

\* n/d in lowest terms with a positive denominator
Rat(n, d) ==
    LET s == IF d < 0 THEN -1 ELSE 1
        g == Gcd(Abs(n), Abs(d))
    IN  <<(s * n) \div g, (s * d) \div g>>

Int2R(i) == <<i, 1>>
RZero == <<0, 1>>
ROne == <<1, 1>>

\* sums over the least common denominator, to keep the integers small
Lcm(a, b) == (a \div Gcd(a, b)) * b
RAdd(a, b) ==
    LET l == Lcm(a[2], b[2])
    IN  Rat(a[1] * (l \div a[2]) + b[1] * (l \div b[2]), l)
RNeg(a) == <<-a[1], a[2]>>
RSub(a, b) == RAdd(a, RNeg(b))
RMul(a, b) == Rat(a[1] * b[1], a[2] * b[2])
RDiv(a, b) == Rat(a[1] * b[2], a[2] * b[1])
RLt(a, b) == RSub(b, a)[1] > 0
RLe(a, b) == RSub(b, a)[1] >= 0
RMax(a, b) == IF RLt(a, b) THEN b ELSE a
RMin(a, b) == IF RLt(b, a) THEN b ELSE a
RAbs(a) == <<Abs(a[1]), a[2]>>
RECURSIVE RPow(_, _)
RPow(a, n) == IF n = 0 THEN ROne ELSE RMul(a, RPow(a, n - 1))
\* JavaScript a % b for a >= 0, b > 0: a - b * floor(a / b)
RMod(a, b) == RSub(a, RMul(b, Int2R((a[1] * b[2]) \div (a[2] * b[1]))))

(***************************************************************************)
(* THREE.Vector3 and THREE.MathUtils, as the component calls them.         *)
(***************************************************************************)
Vec(x, y, z) == <<x, y, z>>
VZero == Vec(RZero, RZero, RZero)
VAdd(a, b) == Vec(RAdd(a[1], b[1]), RAdd(a[2], b[2]), RAdd(a[3], b[3]))
multiplyScalar(v, s) == Vec(RMul(v[1], s), RMul(v[2], s), RMul(v[3], s))

\* Vector3.lerpVectors(v1, v2, alpha): v1 + (v2 - v1) * alpha on each axis
lerpAxis(a, b, alpha) == RAdd(a, RMul(RSub(b, a), alpha))
lerpVectors(v1, v2, alpha) ==
    Vec(lerpAxis(v1[1], v2[1], alpha),
        lerpAxis(v1[2], v2[2], alpha),
        lerpAxis(v1[3], v2[3], alpha))

\* MathUtils.lerp(x, y, t) = (1 - t) * x + t * y
lerp(x, y, t) == RAdd(RMul(RSub(ROne, t), x), RMul(t, y))

\* MathUtils.clamp(value, min, max) = max(min, min(max, value))
clamp(value, min, max) == RMax(min, RMin(max, value))

\* MathUtils.smoothstep(x, 0, 1)
smoothstep(x) ==
    IF RLe(x, RZero) THEN RZero
    ELSE IF RLe(ROne, x) THEN ROne
    ELSE RMul(RMul(x, x), RSub(Int2R(3), RMul(Int2R(2), x)))

(***************************************************************************)
(* JavaScript strings: sequences of one-character strings.                 *)
(***************************************************************************)
Dot == <<".">>
SignMarker == <<"S", "i", "g", "n">>
ScaleProp == <<"s", "c", "a", "l", "e">>
PositionProp == <<"p", "o", "s", "i", "t", "i", "o", "n">>

\* String.prototype.includes
includes(s, sub) ==
    \E i \in 0..(Len(s) - Len(sub)) : SubSeq(s, i + 1, i + Len(sub)) = sub

\* index of the first "." in s, or 0
RECURSIVE FirstDot(_, _)
FirstDot(s, i) ==
    IF i > Len(s) THEN 0
    ELSE IF s[i] = "." THEN i
    ELSE FirstDot(s, i + 1)

\* String.prototype.split("."): the sequence of segments
RECURSIVE split(_)
split(s) ==
    LET i == FirstDot(s, 1)
    IN  IF i = 0 THEN <<s>>
        ELSE <<SubSeq(s, 1, i - 1)>> \o split(SubSeq(s, i + 1, Len(s)))

(***************************************************************************)
(* The loaded asset (useGLTF): the scene graph in traversal order and the  *)
(* animation clips.  A node is a THREE.Mesh, a THREE.Line or a plain       *)
(* Group; rest is the authored scale, world the world position.            *)
(***************************************************************************)
SceneNodes ==
    << [name |-> <<"S", "c", "e", "n", "e">>, kind |-> "Group",
        rest |-> Vec(ROne, ROne, ROne), world |-> VZero],
       [name |-> SignMarker \o <<"A">>, kind |-> "Mesh",
        rest |-> Vec(ROne, ROne, ROne),
        world |-> Vec(ROne, RZero, RZero)],
       [name |-> SignMarker \o <<"B">>, kind |-> "Mesh",
        rest |-> Vec(Int2R(2), Int2R(2), Int2R(2)),
        world |-> Vec(Rat(1, 2), Rat(1, 2), Int2R(-1))],
       [name |-> <<"F", "l", "o", "o", "r">>, kind |-> "Mesh",
        rest |-> Vec(Int2R(3), ROne, Int2R(3)), world |-> VZero],
       [name |-> SignMarker \o <<"P", "o", "s", "t">>, kind |-> "Line",
        rest |-> Vec(ROne, ROne, ROne),
        world |-> Vec(RZero, ROne, RZero)] >>

Nodes == DOMAIN SceneNodes
\* null, for a ref that holds a node
NoNode == 0

\* mutant: every mesh is taken for a sign
IsSignMeshAnyMesh(n) == SceneNodes[n].kind = "Mesh"

\* e.object instanceof THREE.Mesh && e.object.name.includes("Sign")
IsSignMesh(n) ==
    /\ SceneNodes[n].kind = "Mesh"
    /\ includes(SceneNodes[n].name, SignMarker)

\* objects a raycast can deliver as e.object
HitTargets == {n \in Nodes : SceneNodes[n].kind \in {"Mesh", "Line"}}

\* gltf.animations: clip durations in seconds and the authored track names
ClipDurations == <<Int2R(2), RZero, Int2R(5)>>
Clips == DOMAIN ClipDurations
AuthoredTracks ==
    << << SignMarker \o <<"A">> \o Dot \o ScaleProp,
          SignMarker \o <<"A">> \o Dot \o PositionProp >>,
       << <<"F", "l", "o", "o", "r">> \o Dot \o ScaleProp >>,
       << SignMarker \o <<"B">> \o Dot \o ScaleProp \o Dot \o <<"x">>,
          SignMarker \o <<"P", "o", "s", "t">> \o Dot \o ScaleProp,
          <<"F", "l", "o", "o", "r">> \o Dot \o PositionProp >> >>

\* the value the asset's scale track of node n holds over the whole clip
AnimatedScale(n) == multiplyScalar(SceneNodes[n].rest, Int2R(2))

(***************************************************************************)
(* Program constants.                                                      *)
(***************************************************************************)
fps == 24
totalFrames == 100
duration == Rat(totalFrames, fps)

\* hover spring: targets and smoothing factor
HoverTarget == Rat(6, 5)
RestTarget == ROne
Smoothing == Rat(3, 20)
\* mutant: progress advances by delta alone
TransitionSpeedUnit == ROne
\* camera fly-to: speed and framing offset
TransitionSpeed == Int2R(2)
Offset == Vec(RZero, Rat(3, 10), Rat(3, 2))
\* orbit-target limits
TargetMinX == Rat(-3, 5)
TargetMaxX == Rat(3, 5)
TargetMinY == Rat(3, 10)
TargetMaxY == ROne
\* <Canvas camera> position and <OrbitControls target>
InitialCamera == Vec(Int2R(3), Int2R(2), Int2R(3))
InitialTarget == Vec(RZero, Rat(1, 2), RZero)

\* the inputs the environment delivers
PushedTargets == {Vec(Int2R(2), Int2R(-1), RZero)}

(***************************************************************************)
(* State of the component (part_000).                                      *)
(***************************************************************************)
VARIABLES
    mixerTime,          \* mixer.current.time
    playing,            \* clips whose action is scheduled in the mixer
    actionsRef,         \* actionsRef.current: sequence of clips
    actionTime,         \* action.time of each clip's action; NaN as <<0, 0>>
    tracks,             \* clip.tracks: the track names of each clip
    controlsRef,        \* controlsRef.current is attached
    cameraPosition,     \* state.camera.position
    controlsTarget,     \* controlsRef.current.target
    cameraTransitionRef,
    focusedSign,
    signsRef,           \* Map: sign mesh -> [baseScale, targetScale]
    nodeScale,          \* scale of every scene node
    hoveredSignRef,
    eventStopped,       \* the last pointer event called e.stopPropagation()
    lastObject,         \* the object under the pointer at the last pointer
                        \* event (e.object); NoNode over empty space
    lastOp,             \* the handler that ran last
    tornDown,           \* the effect's cleanup ran and the effect has not since
    frames, inits, clicks, orbitInputs,
    sceneNames,         \* node names of gltf.scene in traversal order
    material,           \* child.material of every node
    texture,            \* the settings of every texture
    nextMaterialId,     \* identity of the next material constructed
    renders,
    steadyHover,        \* history: the hovered sign the last frame read
    steadyFrames,       \* history: consecutive frames that read steadyHover
    transitionFrames,   \* history: frames that advanced the current transition
    transitionMinDelta  \* history: the least delta of those frames

clipVars == <<mixerTime, playing, actionsRef, actionTime, tracks>>
cameraVars == <<controlsRef, cameraPosition, controlsTarget,
                cameraTransitionRef, focusedSign>>
signVars == <<signsRef, nodeScale, hoveredSignRef>>
auxVars == <<eventStopped, lastObject, lastOp, tornDown, frames, inits,
             clicks, orbitInputs>>
historyVars == <<steadyHover, steadyFrames, transitionFrames,
                 transitionMinDelta>>
sceneVars == <<sceneNames, material, texture, nextMaterialId, renders>>
vars == <<clipVars, cameraVars, signVars, auxVars, sceneVars, historyVars>>

NaN == <<0, 0>>

\* material.map === undefined
NoTexture == 0
Textures == {1, 2}
\* a texture as the loader leaves it
LoadedTexture ==
    [colorSpace |-> "", generateMipmaps |-> TRUE,
     minFilter |-> "LinearMipmapLinearFilter", magFilter |-> "LinearFilter",
     version |-> 0]
\* the materials of the asset: the signs share one textured lit material
\* kind, the floor is multi-material
LoadedMaterials ==
    [n \in Nodes |->
        [kind |-> IF n = 4 THEN "Array" ELSE "MeshStandardMaterial",
         map |-> IF n \in {2, 3} THEN 1 ELSE IF n = 5 THEN 2 ELSE NoTexture,
         id |-> n]]

\* what is the same in every initial state
InitComponent ==
    /\ mixerTime = RZero
    /\ playing = {}
    /\ actionsRef = <<>>
    /\ actionTime = [c \in Clips |-> RZero]
    /\ controlsRef = TRUE
    /\ cameraPosition = InitialCamera
    /\ controlsTarget = InitialTarget
    /\ cameraTransitionRef =
           [isAnimating |-> FALSE, startPosition |-> VZero,
            startTarget |-> VZero, endPosition |-> VZero,
            endTarget |-> VZero, progress |-> RZero]
    /\ focusedSign = NoNode
    /\ signsRef = <<>>
    /\ nodeScale = [n \in Nodes |-> SceneNodes[n].rest]
    /\ hoveredSignRef = NoNode
    /\ eventStopped = FALSE
    /\ lastObject = NoNode
    /\ lastOp = "construct"
    /\ tornDown = FALSE
    /\ frames = 0
    /\ inits = 0
    /\ clicks = 0
    /\ orbitInputs = 0
    /\ texture = [t \in Textures |-> LoadedTexture]
    /\ nextMaterialId = Len(SceneNodes) + 1
    /\ renders = 0
    /\ steadyHover = NoNode
    /\ steadyFrames = 0
    /\ transitionFrames = 0
    /\ transitionMinDelta = RZero

Init ==
    /\ InitComponent
    /\ tracks = AuthoredTracks
    /\ sceneNames = [n \in Nodes |-> SceneNodes[n].name]
    /\ material = LoadedMaterials

(***************************************************************************)
(* useEffect: initialize mixer and find signs.  The loader always gives    *)
(* gltf.animations (possibly empty), so the early return is never taken.   *)
(***************************************************************************)
\* the filter predicate of clip.tracks.filter: TRUE keeps the track
KeepTrack(trackName) ==
    LET parts == split(trackName)
        nodeName == parts[1]
        hasProperty == Len(parts) >= 2
    IN  ~(/\ includes(nodeName, SignMarker)
          /\ hasProperty
          /\ parts[2] = ScaleProp)

FilterTracks(ts) == SelectSeq(ts, KeepTrack)

\* the sign cache: every sign mesh with the scale it has now
CaptureBaseScale(n) == nodeScale[n]

SignCache ==
    [n \in {m \in Nodes : IsSignMesh(m)} |->
        [baseScale |-> CaptureBaseScale(n), targetScale |-> RestTarget]]

\* mutant: the scheduled actions are left as they are
stopNoAction == actionTime

\* mixer.stopAllAction(): every scheduled action is stopped and reset; the
\* action times afterwards
stopAllAction ==
    [c \in Clips |-> IF c \in playing THEN RZero ELSE actionTime[c]]

Initialize ==
    /\ inits < MaxInits
    /\ actionTime' = stopAllAction
    /\ tornDown' = FALSE
    /\ tracks' = [c \in Clips |-> FilterTracks(tracks[c])]
    /\ actionsRef' = [i \in 1..Len(ClipDurations) |-> i]
    /\ playing' = Clips
    /\ signsRef' = SignCache
    /\ inits' = inits + 1
    /\ lastOp' = "initialize"
    /\ UNCHANGED <<mixerTime, cameraVars, nodeScale, hoveredSignRef,
                   eventStopped, lastObject, frames, clicks, orbitInputs,
                   sceneVars, steadyHover, transitionFrames,
                   transitionMinDelta>>
    /\ steadyFrames' = 0

\* the cleanup the effect returns: it runs when the component is torn down,
\* after which no frame or pointer callback of the component runs
Cleanup ==
    /\ inits > 0
    /\ ~tornDown
    /\ actionTime' = stopAllAction
    /\ playing' = {}
    /\ tornDown' = TRUE
    /\ lastOp' = "cleanup"
    /\ UNCHANGED <<mixerTime, actionsRef, tracks, cameraVars, signVars,
                   eventStopped, lastObject, frames, inits, clicks,
                   orbitInputs, sceneVars, historyVars>>

(***************************************************************************)
(* useFrame: the per-frame update.  controlsRef.current.update() is the    *)
(* orbit control's own recomputation (three-stdlib); it is taken to leave  *)
(* the target and the camera position as the component wrote them.         *)
(***************************************************************************)
\* mutant: the master time is not wrapped to the loop
CursorNoWrap(time, clipDuration) ==
    RMul(RDiv(time, duration), clipDuration)

\* mutant: the clip runs on its own clock, not re-phased onto the master loop
CursorUnscaled(time, clipDuration) == RMod(time, clipDuration)

\* step 1: the cursor written to a clip of duration clipDuration
Cursor(time, clipDuration) ==
    RMul(RDiv(RMod(time, duration), duration), clipDuration)

\* AnimationAction._updateTime for a scheduled repeating action
MixerAdvance(time, delta, clipDuration) ==
    IF delta = RZero THEN time
    ELSE IF clipDuration = RZero \/ time = NaN THEN NaN
    ELSE RMod(RAdd(time, delta), clipDuration)

\* the time of clip c's action after step 1
WriteCursor(c, time, delta) ==
    IF (\E i \in DOMAIN actionsRef : actionsRef[i] = c)
       /\ RLt(RZero, ClipDurations[c])
    THEN Cursor(RAdd(time, delta), ClipDurations[c])
    ELSE IF c \in playing
    THEN MixerAdvance(actionTime[c], delta, ClipDurations[c])
    ELSE actionTime[c]

\* mutant: a completed transition keeps the progress it overshot to
AdvanceTransitionNoClamp(tr, delta) ==
    LET p == RAdd(tr.progress, RMul(delta, TransitionSpeed))
    IN  IF RLe(ROne, p)
        THEN [tr EXCEPT !.isAnimating = FALSE, !.progress = p]
        ELSE [tr EXCEPT !.progress = p]

\* step 1: a scale track of a scheduled clip drives the node it is bound to
DrivenByTrack(n) ==
    \E c \in playing : \E i \in DOMAIN tracks[c] :
        tracks[c][i] = SceneNodes[n].name \o Dot \o ScaleProp

\* the scale of node n as mixer.update leaves it
MixerScale(n) ==
    IF DrivenByTrack(n) THEN AnimatedScale(n) ELSE nodeScale[n]

\* step 2: the transition record after progress += delta * 2
AdvanceTransition(tr, delta) ==
    LET p == RAdd(tr.progress, RMul(delta, TransitionSpeed))
    IN  IF RLe(ROne, p)
        THEN [tr EXCEPT !.isAnimating = FALSE, !.progress = ROne]
        ELSE [tr EXCEPT !.progress = p]

\* step 3: the hover spring of one sign
HoverTargetOf(sign) ==
    IF sign = hoveredSignRef THEN HoverTarget ELSE RestTarget

\* mutant: the eased step is added without subtracting the current value
SpringStepAccumulate(sign) ==
    RAdd(signsRef[sign].targetScale, RMul(HoverTargetOf(sign), Smoothing))

\* mutant: the smoothing factor of the earlier HoverSign component, 0.1
SpringStepSlow(sign) ==
    lerp(signsRef[sign].targetScale, HoverTargetOf(sign), Rat(1, 10))

SpringStep(sign) == lerp(signsRef[sign].targetScale, HoverTargetOf(sign), Smoothing)

\* mutant: the scale is written from the factor of the frame before
AppliedScaleStale(sign) ==
    multiplyScalar(signsRef[sign].baseScale, signsRef[sign].targetScale)

\* step 3: sign.scale.copy(data.baseScale).multiplyScalar(data.targetScale)
AppliedScale(sign) ==
    multiplyScalar(signsRef[sign].baseScale, SpringStep(sign))

\* mutant: only x is clamped
ClampTargetXOnly(target) ==
    Vec(clamp(target[1], TargetMinX, TargetMaxX), target[2], target[3])

\* step 4: the orbit-target limits
ClampTarget(target) ==
    Vec(clamp(target[1], TargetMinX, TargetMaxX),
        clamp(target[2], TargetMinY, TargetMaxY),
        target[3])

\* mutant: the limits are applied whether or not a transition is active
CameraLimitsAlways(tr) == controlsRef

\* step 4: the condition under which the limits are applied
CameraLimitsApply(tr) == controlsRef /\ ~tr.isAnimating

Frame(delta) ==
    /\ frames < MaxFrames
    /\ ~tornDown
    /\ mixerTime' = RAdd(mixerTime, delta)
    /\ actionTime' = [c \in Clips |-> WriteCursor(c, mixerTime, delta)]
    /\ LET animating == cameraTransitionRef.isAnimating /\ controlsRef
           tr == IF animating
                 THEN AdvanceTransition(cameraTransitionRef, delta)
                 ELSE cameraTransitionRef
           t == smoothstep(tr.progress)
           moved == IF animating
                    THEN lerpVectors(tr.startTarget, tr.endTarget, t)
                    ELSE controlsTarget
       IN  /\ cameraTransitionRef' = tr
           /\ cameraPosition' =
                  IF animating
                  THEN lerpVectors(tr.startPosition, tr.endPosition, t)
                  ELSE cameraPosition
           /\ controlsTarget' =
                  IF CameraLimitsApply(tr)
                  THEN ClampTarget(moved)
                  ELSE moved
    /\ signsRef' = [sign \in DOMAIN signsRef |->
                      [signsRef[sign] EXCEPT !.targetScale = SpringStep(sign)]]
    /\ nodeScale' = [n \in Nodes |->
                       IF n \in DOMAIN signsRef
                       THEN AppliedScale(n)
                       ELSE MixerScale(n)]
    /\ frames' = frames + 1
    /\ lastOp' = "frame"
    /\ UNCHANGED <<playing, actionsRef, tracks, controlsRef, focusedSign,
                   hoveredSignRef, eventStopped, lastObject, tornDown, inits,
                   clicks, orbitInputs, sceneVars>>
    /\ steadyHover' = hoveredSignRef
    /\ steadyFrames' = IF hoveredSignRef = steadyHover
                       THEN steadyFrames + 1 ELSE 1
    /\ IF cameraTransitionRef.isAnimating /\ controlsRef
       THEN /\ transitionFrames' = transitionFrames + 1
            /\ transitionMinDelta' =
                   IF transitionFrames = 0 THEN delta
                   ELSE RMin(transitionMinDelta, delta)
       ELSE UNCHANGED <<transitionFrames, transitionMinDelta>>

(***************************************************************************)
(* Pointer routing.                                                        *)
(***************************************************************************)
\* mutant: moving off a sign keeps the last hovered sign
HoverAfterMoveSticky(object) ==
    IF IsSignMesh(object) THEN object ELSE hoveredSignRef

\* hoveredSignRef.current after onPointerMove with e.object = object
HoverAfterMove(object) == IF IsSignMesh(object) THEN object ELSE NoNode

PointerMove(object) ==
    /\ ~tornDown
    /\ hoveredSignRef' = HoverAfterMove(object)
    /\ eventStopped' = IsSignMesh(object)
    /\ lastObject' = object
    /\ lastOp' = "pointermove"
    /\ UNCHANGED <<clipVars, cameraVars, signsRef, nodeScale, tornDown,
                   frames, inits, clicks, orbitInputs, sceneVars,
                   historyVars>>

\* the pointer moves over empty space: the ray hits no object of the scene,
\* so no onPointerMove of the <primitive> is called
PointerMiss ==
    /\ ~tornDown
    /\ lastObject' = NoNode
    /\ lastOp' = "pointermiss"
    /\ UNCHANGED <<clipVars, cameraVars, signVars, eventStopped, tornDown,
                   frames, inits, clicks, orbitInputs, sceneVars,
                   historyVars>>

\* mutant: the new transition starts where the interrupted one was going
StartTransitionFromPreviousEnd(sign) ==
    [isAnimating |-> TRUE,
     startPosition |-> cameraTransitionRef.endPosition,
     startTarget |-> cameraTransitionRef.endTarget,
     endPosition |-> VAdd(SceneNodes[sign].world, Offset),
     endTarget |-> SceneNodes[sign].world,
     progress |-> RZero]

\* the transition a click on sign sets up
StartTransition(sign) ==
    [isAnimating |-> TRUE,
     startPosition |-> cameraPosition,
     startTarget |-> controlsTarget,
     endPosition |-> VAdd(SceneNodes[sign].world, Offset),
     endTarget |-> SceneNodes[sign].world,
     progress |-> RZero]

Click(object) ==
    /\ clicks < MaxClicks
    /\ ~tornDown
    /\ IF IsSignMesh(object) /\ controlsRef
       THEN /\ focusedSign' = object
            /\ cameraTransitionRef' = StartTransition(object)
            /\ eventStopped' = TRUE
            /\ transitionFrames' = 0
            /\ transitionMinDelta' = RZero
       ELSE /\ UNCHANGED <<focusedSign, cameraTransitionRef,
                           transitionFrames, transitionMinDelta>>
            /\ eventStopped' = FALSE
    /\ clicks' = clicks + 1
    /\ lastObject' = object
    /\ lastOp' = "click"
    /\ UNCHANGED <<clipVars, controlsRef, cameraPosition, controlsTarget,
                   signVars, tornDown, frames, inits, orbitInputs,
                   sceneVars, steadyHover, steadyFrames>>

(***************************************************************************)
(* The orbit control moves its target on user input (external).            *)
(***************************************************************************)
OrbitInput(target) ==
    /\ orbitInputs < MaxOrbitInputs
    /\ controlsTarget' = target
    /\ orbitInputs' = orbitInputs + 1
    /\ lastOp' = "orbit"
    /\ UNCHANGED <<clipVars, controlsRef, cameraPosition,
                   cameraTransitionRef, focusedSign, signVars,
                   eventStopped, lastObject, tornDown, frames, inits,
                   clicks, sceneVars, historyVars>>

(***************************************************************************)
(* Texture baking: the traversal in the component body, run on every       *)
(* render.                                                                 *)
(***************************************************************************)
\* mutant: a material that is already a MeshBasicMaterial is wrapped again
NeedsBakingAnyKind(mat) ==
    /\ mat.kind # "None"
    /\ mat.map # NoTexture

\* material && material.map && !(child.material instanceof MeshBasicMaterial)
NeedsBaking(mat) ==
    /\ mat.kind # "None"
    /\ mat.map # NoTexture
    /\ mat.kind # "MeshBasicMaterial"

\* the traversal callback on node n; st = [material, texture, nextId]
BakeNode(n, st) ==
    LET mat == st.material[n]
    IN  IF SceneNodes[n].kind # "Mesh" \/ mat.kind = "Array" THEN st
        ELSE IF NeedsBaking(mat)
        THEN [material |-> [st.material EXCEPT ![n] =
                               [kind |-> "MeshBasicMaterial",
                                map |-> mat.map, id |-> st.nextId]],
              texture |-> [st.texture EXCEPT ![mat.map] =
                              [colorSpace |-> "srgb",
                               generateMipmaps |-> FALSE,
                               minFilter |-> "LinearFilter",
                               magFilter |-> "LinearFilter",
                               version |-> @.version + 1]],
              nextId |-> st.nextId + 1]
        ELSE st

RECURSIVE BakeFrom(_, _)
BakeFrom(n, st) ==
    IF n > Len(SceneNodes) THEN st ELSE BakeFrom(n + 1, BakeNode(n, st))

TextureBaking ==
    BakeFrom(1, [material |-> material, texture |-> texture,
                 nextId |-> nextMaterialId])

Render ==
    /\ renders < MaxRenders
    /\ material' = TextureBaking.material
    /\ texture' = TextureBaking.texture
    /\ nextMaterialId' = TextureBaking.nextId
    /\ renders' = renders + 1
    /\ lastOp' = "render"
    /\ UNCHANGED <<clipVars, cameraVars, signVars, eventStopped,
                   lastObject, tornDown, frames, inits, clicks,
                   orbitInputs, sceneNames, historyVars>>

(***************************************************************************)
(* The earlier revision (components/Experience.tsx): useEffect remaps the  *)
(* node of every animation track, then starts the actions.                 *)
(***************************************************************************)
\* null, for a value that holds a name
Null == <<"null">>
\* JavaScript truthiness of a name or null: null and "" are falsy
Truthy(v) == v # Null /\ v # <<>>

BakedSuffix == <<"_", "b", "a", "k", "e", "d">>

\* the /i flag: letters compared in lower case
LowerChar(ch) ==
    CASE ch = "B" -> "b" [] ch = "A" -> "a" [] ch = "K" -> "k"
      [] ch = "E" -> "e" [] ch = "D" -> "d" [] OTHER -> ch

\* nodeName.replace(/_Baked$/i, "")
StripBaked(nodeName) ==
    LET n == Len(nodeName)
        k == Len(BakedSuffix)
    IN  IF n >= k
           /\ [i \in 1..k |-> LowerChar(nodeName[n - k + i])] = BakedSuffix
        THEN SubSeq(nodeName, 1, n - k)
        ELSE nodeName

\* gltf.scene.getObjectByName(name)?.name: the first node with that name
getObjectByName(name) ==
    IF \E i \in DOMAIN sceneNames : sceneNames[i] = name THEN name ELSE Null

\* gltf.scene.traverse with the foundName accumulator, from node i on
RECURSIVE TraverseFind(_, _, _)
TraverseFind(i, foundName, needle) ==
    IF i > Len(sceneNames) THEN foundName
    ELSE TraverseFind(i + 1,
                      IF ~Truthy(foundName) /\ includes(sceneNames[i], needle)
                      THEN sceneNames[i] ELSE foundName,
                      needle)

findNodeName(nodeName) ==
    LET exact == getObjectByName(nodeName)
        cleaned == StripBaked(nodeName)
        cleanedNode == getObjectByName(cleaned)
        bySubstring == TraverseFind(1, Null, nodeName)
        byCleaned == TraverseFind(1, Null, cleaned)
    IN  IF exact # Null THEN exact
        ELSE IF cleanedNode # Null THEN cleanedNode
        ELSE IF Truthy(bySubstring) THEN bySubstring
        ELSE IF Truthy(byCleaned) THEN byCleaned
        ELSE Null

\* Array.prototype.join(".")
RECURSIVE join(_)
join(parts) ==
    IF Len(parts) = 0 THEN <<>>
    ELSE IF Len(parts) = 1 THEN parts[1]
    ELSE parts[1] \o Dot \o join(Tail(parts))

\* the callback of clip.tracks.forEach: the track's name afterwards
RemapTrack(trackName) ==
    LET parts == split(trackName)
    IN  IF Len(parts) < 2 THEN trackName
        ELSE LET nodePart == parts[1]
                 propPart == join(Tail(parts))
                 mapped == findNodeName(nodePart)
             IN  IF Truthy(mapped) /\ mapped # nodePart
                 THEN mapped \o Dot \o propPart
                 ELSE trackName

\* a re-run of the effect is preceded by the cleanup of the run before
LegacyInitialize ==
    /\ inits < MaxInits
    /\ actionTime' = stopAllAction
    /\ tracks' = [c \in Clips |->
                    [i \in DOMAIN tracks[c] |-> RemapTrack(tracks[c][i])]]
    /\ actionsRef' = [i \in 1..Len(ClipDurations) |-> i]
    /\ playing' = Clips
    /\ inits' = inits + 1
    /\ lastOp' = "legacy-initialize"
    /\ UNCHANGED <<mixerTime, cameraVars, signVars, eventStopped,
                   lastObject, tornDown, frames, clicks, orbitInputs,
                   sceneVars, historyVars>>

(***************************************************************************)
(* Specifications.  Spec is the whole component; the others are Spec with  *)
(* the environment restricted to the events of one subsystem.              *)
(***************************************************************************)
FrameDeltas == {RZero, Rat(1, 4), Rat(1, 2), Rat(25, 12)}

Next ==
    \/ Initialize
    \/ Cleanup
    \/ \E delta \in FrameDeltas : Frame(delta)
    \/ \E object \in HitTargets : PointerMove(object)
    \/ PointerMiss
    \/ \E object \in HitTargets : Click(object)
    \/ \E target \in PushedTargets : OrbitInput(target)
    \/ Render

Spec == Init /\ [][Next]_vars

\* the camera: frames, clicks and orbit input
CameraDeltas == {RZero, Rat(1, 4), Rat(1, 2)}

NextCamera ==
    \/ \E delta \in CameraDeltas : Frame(delta)
    \/ \E object \in HitTargets : Click(object)
    \/ \E target \in PushedTargets : OrbitInput(target)

SpecCamera == Init /\ [][NextCamera]_vars

\* the fly-to transition: clicks, and frames slow enough for a transition
\* to last several of them
TransitionDeltas == {RZero, Rat(1, 8), Rat(1, 4)}

NextTransition ==
    \/ \E delta \in TransitionDeltas : Frame(delta)
    \/ \E object \in HitTargets : Click(object)

SpecTransition == Init /\ [][NextTransition]_vars

\* pointer routing: after the effect's first run, pointer moves over SignA
\* and the floor and clicks on SignB and the floor, between frames
PointerDeltas == {Rat(1, 4)}
MoveTargets == {n \in HitTargets : SceneNodes[n].name \in
                   {SignMarker \o <<"A">>, <<"F", "l", "o", "o", "r">>}}
ClickTargets == {n \in HitTargets : SceneNodes[n].name \in
                    {SignMarker \o <<"B">>, <<"F", "l", "o", "o", "r">>}}

NextPointer ==
    \/ inits = 0 /\ Initialize
    \/ \E delta \in PointerDeltas : Frame(delta)
    \/ \E object \in MoveTargets : PointerMove(object)
    \/ \E object \in ClickTargets : Click(object)

SpecPointer == Init /\ [][NextPointer]_vars

\* the hover springs: initialization, frames at 60 Hz and pointer moves,
\* onto objects and onto empty space
HoverDeltas == {Rat(1, 60)}

NextHover ==
    \/ Initialize
    \/ \E delta \in HoverDeltas : Frame(delta)
    \/ \E object \in HitTargets : PointerMove(object)
    \/ PointerMiss

SpecHover == Init /\ [][NextHover]_vars

\* the clip player: initialization, teardown and frames of any length
ClipDeltas == {RZero, Rat(1, 60), ROne, Rat(25, 12), Rat(25, 6)}

NextClips ==
    \/ Initialize
    \/ Cleanup
    \/ \E delta \in ClipDeltas : Frame(delta)

SpecClips == Init /\ [][NextClips]_vars

\* the track filter: any two tracks, named from a node part and a property
\* path or without any dot, in the first clip
FilterNodeParts ==
    { SignMarker \o <<"A">>,
      <<"a">> \o SignMarker,
      <<"s", "i", "g", "n">>,
      <<"F">> }

FilterPropertyPaths ==
    { ScaleProp,
      ScaleProp \o Dot \o <<"x">>,
      ScaleProp \o <<"s">>,
      <<"p">> \o Dot \o ScaleProp,
      <<"p">> }

FilterTrackNames ==
    {node \o Dot \o path :
        node \in FilterNodeParts, path \in FilterPropertyPaths}
        \cup {SignMarker, ScaleProp}

InitFilter ==
    /\ InitComponent
    /\ sceneNames = [n \in Nodes |-> SceneNodes[n].name]
    /\ material = LoadedMaterials
    /\ \E first \in FilterTrackNames : \E second \in FilterTrackNames :
           tracks = [c \in Clips |->
                        IF c = 1 THEN <<first, second>> ELSE <<>>]

NextFilter == Initialize

SpecFilter == InitFilter /\ [][NextFilter]_vars

\* texture baking: any assignment of materials to the nodes, then renders
MaterialChoices ==
    { [kind |-> "MeshStandardMaterial", map |-> 1],
      [kind |-> "MeshStandardMaterial", map |-> 2],
      [kind |-> "MeshStandardMaterial", map |-> NoTexture],
      [kind |-> "MeshBasicMaterial", map |-> 1],
      [kind |-> "Array", map |-> NoTexture],
      [kind |-> "None", map |-> NoTexture] }

InitBake ==
    /\ InitComponent
    /\ tracks = AuthoredTracks
    /\ sceneNames = [n \in Nodes |-> SceneNodes[n].name]
    /\ \E choice \in [Nodes -> MaterialChoices] :
           material = [n \in Nodes |->
                          [kind |-> choice[n].kind, map |-> choice[n].map,
                           id |-> n]]

NextBake == Render

SpecBake == InitBake /\ [][NextBake]_vars

\* the track remapper: any scene of up to MaxSceneNodes nodes named from
\* NodeNamePool, and any track named from a node part and a property path
NodeNamePool ==
    { <<>>,
      <<"A">>,
      <<"B", "A">>,
      <<"A", "_", "B", "a", "k", "e", "d", "X">> }

TrackNodeParts ==
    { <<>>,
      <<"A">>,
      <<"A", "_", "B", "a", "k", "e", "d">>,
      <<"A", "_", "B", "A", "K", "E", "D">>,
      <<"_", "B", "a", "k", "e", "d">>,
      <<"Z">>,
      <<"Z", "_", "b", "a", "k", "e", "d">> }

TrackProperties == { <<"s">>, <<"p", ".", "x">> }

\* track names: with a property path, and without any dot
TrackNames ==
    {node \o Dot \o prop : node \in TrackNodeParts, prop \in TrackProperties}
        \cup {<<"A">>}

Scenes == UNION {[1..n -> NodeNamePool] : n \in 1..MaxSceneNodes}

InitRemap ==
    /\ InitComponent
    /\ material = LoadedMaterials
    /\ sceneNames \in Scenes
    /\ \E name \in TrackNames :
           tracks = [c \in Clips |-> IF c = 1 THEN <<name>> ELSE <<>>]

NextRemap == LegacyInitialize

SpecRemap == InitRemap /\ [][NextRemap]_vars

(***************************************************************************)
(* Properties.                                                             *)
(***************************************************************************)
\* the step just taken is a frame update
FrameStep == lastOp' = "frame" /\ frames' = frames + 1
\* the step just taken is a click that started a transition
ClickOnSignStep == lastOp' = "click" /\ clicks' = clicks + 1 /\ eventStopped'

InLimits(target) ==
    /\ RLe(TargetMinX, target[1]) /\ RLe(target[1], TargetMaxX)
    /\ RLe(TargetMinY, target[2]) /\ RLe(target[2], TargetMaxY)

\* C1: a fly-to started by a click on the sign at P ends, in the frame in
\* which progress reaches 1, with the camera at P + (0, 0.3, 1.5) and the
\* orbit target at P, and later frames keep that pose while nothing else
\* moves the camera or the target.
C1_FinalPoseReachedAndHeld ==
    [][ ( /\ FrameStep
          /\ focusedSign # NoNode
          /\ ~cameraTransitionRef'.isAnimating
          /\ cameraTransitionRef'.progress = ROne
          /\ \/ cameraTransitionRef.isAnimating
             \/ /\ cameraPosition = cameraTransitionRef.endPosition
                /\ controlsTarget = cameraTransitionRef.endTarget )
        => ( /\ cameraPosition' = VAdd(SceneNodes[focusedSign].world, Offset)
             /\ controlsTarget' = SceneNodes[focusedSign].world ) ]_vars

\* C2: after a frame update the cursor of every active clip of positive
\* duration lies in [0, clipDuration).
C2_CursorInRange ==
    lastOp = "frame" =>
        \A i \in DOMAIN actionsRef :
            LET c == actionsRef[i]
            IN  RLt(RZero, ClipDurations[c]) =>
                    /\ RLe(RZero, actionTime[c])
                    /\ RLt(actionTime[c], ClipDurations[c])

\* a frame has wrapped the master loop and left a clip mid-cycle
C2_Witness ==
    /\ lastOp = "frame"
    /\ RLt(duration, mixerTime)
    /\ actionsRef # <<>>
    /\ RLt(RZero, actionTime[1])

\* C3: the scale factor of every tracked sign stays within [1.0, 1.2].
C3_ScaleFactorInRange ==
    \A sign \in DOMAIN signsRef :
        /\ RLe(RestTarget, signsRef[sign].targetScale)
        /\ RLe(signsRef[sign].targetScale, HoverTarget)

\* hover has moved from one sign to another: both factors are strictly
\* inside the range
C3_Witness ==
    /\ lastOp = "frame"
    /\ hoveredSignRef # NoNode
    /\ \A sign \in DOMAIN signsRef :
           /\ RLt(RestTarget, signsRef[sign].targetScale)
           /\ RLt(signsRef[sign].targetScale, HoverTarget)
    /\ Cardinality(DOMAIN signsRef) >= 2

\* C4: the base scale of every tracked sign is the authored rest scale, over
\* any sequence of initializations, frames and pointer events.
C4_BaseScaleIsRestScale ==
    \A sign \in DOMAIN signsRef :
        signsRef[sign].baseScale = SceneNodes[sign].rest

\* C5: a click on a sign during an active transition starts the new
\* transition from the live camera position and orbit target, with progress
\* 0 and the transition active.
C5_RedirectFromLivePose ==
    [][ (ClickOnSignStep /\ cameraTransitionRef.isAnimating)
        => ( /\ cameraTransitionRef'.startPosition = cameraPosition
             /\ cameraTransitionRef'.startTarget = controlsTarget
             /\ cameraTransitionRef'.progress = RZero
             /\ cameraTransitionRef'.isAnimating
             /\ cameraPosition' = cameraPosition
             /\ controlsTarget' = controlsTarget ) ]_vars

\* a click has interrupted a transition part-way: the new start is neither
\* the first start nor a sign's framing position
C5_Witness ==
    /\ lastOp = "click"
    /\ cameraTransitionRef.isAnimating
    /\ cameraTransitionRef.progress = RZero
    /\ cameraTransitionRef.startPosition = cameraPosition
    /\ cameraPosition # InitialCamera
    /\ \A n \in Nodes : cameraPosition # VAdd(SceneNodes[n].world, Offset)

\* C6: a frame update that ends with no transition active leaves the orbit
\* target within x in [-0.6, 0.6], y in [0.3, 1.0]; when none was active at
\* its start either, z is unchanged and (2, -1, 0) becomes (0.6, 0.3, 0).
C6_TargetClamped ==
    [][ (FrameStep /\ controlsRef /\ ~cameraTransitionRef'.isAnimating)
        => ( /\ InLimits(controlsTarget')
             /\ ~cameraTransitionRef.isAnimating =>
                    /\ controlsTarget'[3] = controlsTarget[3]
                    /\ controlsTarget = Vec(Int2R(2), Int2R(-1), RZero)
                           => controlsTarget' =
                                  Vec(Rat(3, 5), Rat(3, 10), RZero) ) ]_vars

\* the pushed target (2, -1, 0) has been clamped by a frame
C6_Witness ==
    /\ lastOp = "frame"
    /\ orbitInputs > 0
    /\ ~cameraTransitionRef.isAnimating
    /\ controlsTarget = Vec(Rat(3, 5), Rat(3, 10), RZero)

\* C7: after a frame update every active clip of positive duration has
\* cursor = ((masterTime mod masterDuration) / masterDuration) * clipDuration
\* with masterDuration = 100/24 s: all clips share one phase, which is 0 at
\* every multiple of masterDuration.
C7_CursorFromMasterTime ==
    lastOp = "frame" =>
        \E k \in 0..MaxLoops :
            LET masterDuration == Rat(100, 24)
                loopTime == RSub(mixerTime, RMul(Int2R(k), masterDuration))
            IN  /\ RLe(RZero, loopTime)
                /\ RLt(loopTime, masterDuration)
                /\ \A i \in DOMAIN actionsRef :
                       LET c == actionsRef[i]
                       IN  RLt(RZero, ClipDurations[c]) =>
                               RMul(actionTime[c], masterDuration)
                                   = RMul(loopTime, ClipDurations[c])

\* Scenario A one loop later: the 2 s clip is at 1.0 s when masterTime is
\* one and a half master durations
C7_Witness ==
    /\ lastOp = "frame"
    /\ mixerTime = Rat(150, 24)
    /\ actionsRef # <<>>
    /\ actionTime[1] = ROne
    /\ actionTime[3] = Rat(5, 2)

\* the step just taken is a render of the component
RenderStep == lastOp' = "render" /\ renders' = renders + 1

\* C8: a second run of the texture baking leaves every mesh's material and
\* every texture as the first run left them; no run touches a mesh with an
\* array of materials, without a color texture, or already carrying the
\* unlit material.
C8_BakingIdempotent ==
    [][ RenderStep
        => ( /\ \A n \in Nodes :
                    ( \/ material[n].kind \in {"Array", "MeshBasicMaterial"}
                      \/ material[n].map = NoTexture )
                    => material'[n] = material[n]
             /\ renders >= 1 =>
                    /\ material' = material
                    /\ texture' = texture ) ]_vars

\* two renders have run on a scene where the first wrapped a lit textured
\* mesh and another mesh is multi-material
C8_Witness ==
    /\ renders = 2
    /\ \E n \in Nodes :
           /\ material[n].kind = "MeshBasicMaterial"
           /\ material[n].id > Len(SceneNodes)
    /\ \E n \in Nodes :
           SceneNodes[n].kind = "Mesh" /\ material[n].kind = "Array"
    /\ \E n \in Nodes :
           /\ SceneNodes[n].kind = "Mesh"
           /\ material[n].kind = "MeshBasicMaterial"
           /\ material[n].id = n

\* C9: in every frame the distance of a sign's scale factor to its hover
\* target is multiplied by 0.85, so after n consecutive frames with the same
\* hovered sign it is at most 0.2 * 0.85^n, whatever value in [1.0, 1.2] it
\* started from.
C9_GeometricConvergence ==
    [][ FrameStep
        => \A sign \in DOMAIN signsRef :
               LET target == HoverTargetOf(sign)
                   before == RAbs(RSub(signsRef[sign].targetScale, target))
                   after == RAbs(RSub(signsRef'[sign].targetScale, target))
               IN  /\ after = RMul(Rat(85, 100), before)
                   /\ RLe(after, RMul(Rat(1, 5),
                                      RPow(Rat(85, 100), steadyFrames'))) ]_vars

\* SignA has been hovered for three frames running after SignB was: SignA
\* is within 0.2 * 0.85^3 of 1.2 and SignB decays from a value it had reached
C9_Witness ==
    /\ lastOp = "frame"
    /\ steadyFrames = 3
    /\ steadyHover = 2
    /\ DOMAIN signsRef = {2, 3}
    /\ RLt(RestTarget, signsRef[3].targetScale)
    /\ RLe(RSub(HoverTarget, signsRef[2].targetScale),
           RMul(Rat(1, 5), RPow(Rat(85, 100), 3)))

\* the step just taken is a run of the earlier revision's effect
RemapStep == lastOp' = "legacy-initialize" /\ inits' = inits + 1

\* the node a name resolves to by the four rules, first match first; Null
\* when no rule matches
FirstContaining(needle) ==
    sceneNames[CHOOSE i \in DOMAIN sceneNames :
                   /\ includes(sceneNames[i], needle)
                   /\ \A j \in 1..(i - 1) : ~includes(sceneNames[j], needle)]

ResolvedByRules(nodeName) ==
    LET names == {sceneNames[i] : i \in DOMAIN sceneNames}
        stripped == StripBaked(nodeName)
    IN  IF nodeName \in names THEN nodeName
        ELSE IF stripped \in names THEN stripped
        ELSE IF \E nm \in names : includes(nm, nodeName)
        THEN FirstContaining(nodeName)
        ELSE IF \E nm \in names : includes(nm, stripped)
        THEN FirstContaining(stripped)
        ELSE Null

\* "<nodeName>.<propertyPath>": the text before and after the first dot
NodeNameOf(trackName) == SubSeq(trackName, 1, FirstDot(trackName, 1) - 1)
PropertyPathOf(trackName) ==
    SubSeq(trackName, FirstDot(trackName, 1) + 1, Len(trackName))

RemappedByRules(trackName) ==
    LET resolved == ResolvedByRules(NodeNameOf(trackName))
    IN  IF resolved # Null /\ resolved # NodeNameOf(trackName)
        THEN resolved \o Dot \o PropertyPathOf(trackName)
        ELSE trackName

\* C10: the remapper rewrites every track "<nodeName>.<propertyPath>" to
\* "<resolved>.<propertyPath>" when the first matching rule (exact, suffix-
\* stripped exact, first containing, first containing the stripped name)
\* resolves nodeName to a different name, and leaves it as it is otherwise.
C10_RemapByRuleOrder ==
    [][ RemapStep
        => \A c \in Clips : \A i \in DOMAIN tracks[c] :
               FirstDot(tracks[c][i], 1) # 0
                   => tracks'[c][i] = RemappedByRules(tracks[c][i]) ]_vars

\* the same, for every track whose resolved name is not the empty string
C10_RemapByRuleOrderNamed ==
    [][ RemapStep
        => \A c \in Clips : \A i \in DOMAIN tracks[c] :
               ( /\ FirstDot(tracks[c][i], 1) # 0
                 /\ ResolvedByRules(NodeNameOf(tracks[c][i])) # <<>> )
                   => tracks'[c][i] = RemappedByRules(tracks[c][i]) ]_vars

\* the step just taken is a pointer-move event
PointerMoveStep == lastOp' = "pointermove"

\* C11: a pointer-move event whose hit target is a sign mesh sets the hover
\* to that object and stops propagation; one whose hit target is any other
\* object sets the hover to none and does not stop propagation.  The hover
\* is one object or none, no other step changes it, and a frame update
\* eases every sign toward the target of the hover as the last pointer-move
\* event left it.
C11_PointerMoveSetsHover ==
    [][ /\ PointerMoveStep =>
            /\ hoveredSignRef' \in Nodes \cup {NoNode}
            /\ IF SceneNodes[lastObject'].kind = "Mesh"
                  /\ includes(SceneNodes[lastObject'].name, SignMarker)
               THEN hoveredSignRef' = lastObject' /\ eventStopped'
               ELSE hoveredSignRef' = NoNode /\ ~eventStopped'
        /\ ~PointerMoveStep => hoveredSignRef' = hoveredSignRef
        /\ FrameStep =>
            /\ steadyHover' = hoveredSignRef
            /\ \A sign \in DOMAIN signsRef :
                   signsRef'[sign].targetScale =
                       lerp(signsRef[sign].targetScale,
                            IF sign = hoveredSignRef
                            THEN HoverTarget ELSE RestTarget,
                            Smoothing) ]_vars

\* the pointer moved from SignA onto SignB and then off every sign, onto the
\* line named SignPost, and a frame has read each of the three values: both
\* signs are part-way and the hover is none
C11_Witness ==
    /\ lastOp = "frame"
    /\ lastObject = 5
    /\ hoveredSignRef = NoNode
    /\ steadyHover = NoNode
    /\ ~eventStopped
    /\ DOMAIN signsRef = {2, 3}
    /\ RLt(signsRef[2].targetScale, signsRef[3].targetScale)
    /\ RLt(RestTarget, signsRef[2].targetScale)

\* the delta of the frame update just taken
StepDelta == RSub(mixerTime', mixerTime)

\* C12: the transition is Idle -> Animating -> Idle.  It becomes active only
\* by a click on a sign mesh, which sets progress to 0 (also when one is
\* already active); it becomes inactive only in a frame update in which
\* progress + 2 * delta has reached 1, which sets progress to exactly 1;
\* otherwise a frame adds 2 * delta to the progress of an active transition.
\* After every step 0 <= progress <= 1, and progress is 0 or 1 whenever the
\* transition is not active.
C12_TransitionStateMachine ==
    [][ LET tr == cameraTransitionRef
            after == cameraTransitionRef'
            advanced == RAdd(tr.progress, RMul(StepDelta, Int2R(2)))
        IN  /\ (~tr.isAnimating /\ after.isAnimating) =>
                    /\ ClickOnSignStep
                    /\ SceneNodes[lastObject'].kind = "Mesh"
                    /\ includes(SceneNodes[lastObject'].name, SignMarker)
            /\ ClickOnSignStep =>
                    after.isAnimating /\ after.progress = RZero
            /\ (tr.isAnimating /\ ~after.isAnimating) =>
                    /\ FrameStep
                    /\ RLe(ROne, advanced)
                    /\ after.progress = ROne
            /\ (FrameStep /\ tr.isAnimating /\ after.isAnimating) =>
                    /\ RLt(advanced, ROne)
                    /\ after.progress = advanced
            /\ (tr.isAnimating = after.isAnimating /\ ~ClickOnSignStep
                   /\ ~(FrameStep /\ tr.isAnimating)) =>
                    after.progress = tr.progress
            /\ RLe(RZero, after.progress) /\ RLe(after.progress, ROne)
            /\ ~after.isAnimating => after.progress \in {RZero, ROne}
            /\ ~tr.isAnimating => tr.progress \in {RZero, ROne} ]_vars

\* a transition was redirected part-way by a second click and the redirected
\* one has completed: Idle -> Animating -> Animating -> Idle
C12_Witness ==
    /\ lastOp = "frame"
    /\ clicks = 2
    /\ focusedSign = 3
    /\ ~cameraTransitionRef.isAnimating
    /\ cameraTransitionRef.progress = ROne
    /\ cameraTransitionRef.startPosition # InitialCamera
    /\ cameraTransitionRef.endTarget = SceneNodes[3].world

Interpolated(v1, v2, t) ==
    [axis \in 1..3 |-> RAdd(v1[axis], RMul(RSub(v2[axis], v1[axis]), t))]

SmoothedOrUnchanged(sign) ==
    LET old == signsRef[sign].targetScale
        new == signsRef'[sign].targetScale
        target == IF sign = hoveredSignRef THEN Rat(12, 10) ELSE ROne
    IN  \/ new = old
        \/ /\ FrameStep
           /\ new = RAdd(old, RMul(RSub(target, old), Rat(15, 100)))

\* C15: in every step the scale factor of a tracked sign either stays
\* unchanged or becomes old + (target - old) * 0.15, with target 1.2 for
\* the hovered sign and 1.0 otherwise; only the frame update changes it, and
\* no pointer event, click or re-initialization sets it to 1.0 or 1.2.
C15_ScaleFactorOnlySmoothed ==
    [][ \A sign \in DOMAIN signsRef \cap DOMAIN signsRef' :
            SmoothedOrUnchanged(sign) ]_vars

\* the same, for every step that is not a run of the initialization effect
C15_ScaleFactorOnlySmoothedByFrames ==
    [][ lastOp' # "initialize" =>
            \A sign \in DOMAIN signsRef \cap DOMAIN signsRef' :
                SmoothedOrUnchanged(sign) ]_vars

\* C16: at the end of every frame update every mesh whose name contains
\* "Sign" has scale baseScale * scaleFactor (the authored rest scale and 1.0
\* while the sign cache is not built yet), also for a sign whose factor did
\* not change in the frame; no scale track of a playing clip is bound to
\* such a mesh, so none determines its scale.
C16_SignScaleIsBaseTimesFactor ==
    [][ FrameStep =>
            \A n \in Nodes :
                ( /\ SceneNodes[n].kind = "Mesh"
                  /\ includes(SceneNodes[n].name, SignMarker) ) =>
                    LET tracked == n \in DOMAIN signsRef'
                        baseScale == IF tracked THEN signsRef'[n].baseScale
                                     ELSE SceneNodes[n].rest
                        scaleFactor == IF tracked THEN signsRef'[n].targetScale
                                       ELSE ROne
                    IN  /\ nodeScale'[n] =
                               [axis \in 1..3 |->
                                   RMul(baseScale[axis], scaleFactor)]
                        /\ tracked = (inits > 0)
                        /\ \A c \in playing' : \A i \in DOMAIN tracks'[c] :
                               tracks'[c][i] #
                                   SceneNodes[n].name \o Dot \o ScaleProp ]_vars

\* a frame has written SignB, whose factor is still exactly 1.0, and SignA,
\* part-way to 1.2, while the floor's scale track, which the filter keeps,
\* has driven the floor
C16_Witness ==
    /\ lastOp = "frame"
    /\ DOMAIN signsRef = {2, 3}
    /\ signsRef[3].targetScale = ROne
    /\ nodeScale[3] = SceneNodes[3].rest
    /\ RLt(ROne, signsRef[2].targetScale)
    /\ nodeScale[2] # SceneNodes[2].rest
    /\ nodeScale[4] = AnimatedScale(4)
    /\ tracks[1] = << SignMarker \o <<"A">> \o Dot \o PositionProp >>

\* the step just taken is a run of the initialization effect
InitializeStep == lastOp' = "initialize" /\ inits' = inits + 1

\* "<nodeName>.<propertyPath>" with nodeName containing "Sign" and
\* propertyPath, everything after the first dot, exactly "scale"
IsSignScaleTrack(trackName) ==
    /\ FirstDot(trackName, 1) # 0
    /\ includes(NodeNameOf(trackName), SignMarker)
    /\ PropertyPathOf(trackName) = ScaleProp

KeptByRule(trackName) == ~IsSignScaleTrack(trackName)

\* C17: initialization removes a track "<nodeName>.<propertyPath>" from its
\* clip if and only if nodeName contains "Sign" and propertyPath, everything
\* after the first dot, is exactly "scale"; the other tracks are kept in
\* their order, and a second initialization removes nothing more.
C17_FilterRemovesExactlySignScale ==
    [][ InitializeStep =>
            \A c \in Clips :
                /\ tracks'[c] = SelectSeq(tracks[c], KeptByRule)
                /\ inits >= 1 => tracks'[c] = tracks[c] ]_vars

\* the segment of a track name between its first and second dots
SecondSegment(trackName) ==
    LET path == PropertyPathOf(trackName)
        dot == FirstDot(path, 1)
    IN  IF dot = 0 THEN path ELSE SubSeq(path, 1, dot - 1)

KeptBySecondSegment(trackName) ==
    ~( /\ FirstDot(trackName, 1) # 0
       /\ includes(NodeNameOf(trackName), SignMarker)
       /\ SecondSegment(trackName) = ScaleProp )

\* what initialization does remove: the tracks whose nodeName contains
\* "Sign" and whose property path starts with the segment "scale"
C17_FilterBySecondSegment ==
    [][ InitializeStep =>
            \A c \in Clips :
                /\ tracks'[c] = SelectSeq(tracks[c], KeptBySecondSegment)
                /\ inits >= 1 => tracks'[c] = tracks[c] ]_vars

\* C18: after any sequence of initializations and teardowns the playing
\* actions are exactly one per clip of the clip list (none before the first
\* initialization and after a teardown), with one entry each in
\* actionsRef; an initialization or teardown stops and resets every action
\* that was playing; a frame update advances or seeks only playing actions
\* held in actionsRef; and no step decreases the master time.
C18_ReinitializationStopsPlayback ==
    [][ /\ playing' = IF inits' > 0 /\ ~tornDown' THEN Clips ELSE {}
        /\ inits' > 0 =>
                /\ Len(actionsRef') = Cardinality(Clips)
                /\ \A c \in Clips :
                       Cardinality({i \in DOMAIN actionsRef' :
                                       actionsRef'[i] = c}) = 1
        /\ (InitializeStep \/ lastOp' = "cleanup") =>
                /\ \A c \in playing : actionTime'[c] = RZero
                /\ mixerTime' = mixerTime
        /\ FrameStep =>
                \A c \in Clips :
                    actionTime'[c] # actionTime[c] =>
                        /\ c \in playing'
                        /\ \E i \in DOMAIN actionsRef' : actionsRef'[i] = c
        /\ RLe(mixerTime, mixerTime') ]_vars

\* the effect has run again after frames had moved the clips: the master
\* time is past one loop, and every action is scheduled afresh at time 0
C18_Witness ==
    /\ lastOp = "initialize"
    /\ inits = 2
    /\ RLt(duration, mixerTime)
    /\ playing = Clips
    /\ \A c \in Clips : actionTime[c] = RZero
    /\ frames >= 2

\* the step just taken moved the pointer, onto an object or onto empty space
PointerMotionStep == lastOp' \in {"pointermove", "pointermiss"}

\* the pointer is on no sign mesh: on another object, or on empty space
OffEverySign(object) ==
    \/ object = NoNode
    \/ ~( /\ SceneNodes[object].kind = "Mesh"
          /\ includes(SceneNodes[object].name, SignMarker) )

\* with no sign hovered, a frame moves every scale factor down toward 1.0:
\* 1.0 <= new <= old, new - 1 = 0.85 * (old - 1), and after n such frames
\* running the factor is within 0.2 * 0.85^n of 1.0
DecaysTowardRest ==
    (FrameStep /\ hoveredSignRef = NoNode) =>
        \A sign \in DOMAIN signsRef :
            LET old == signsRef[sign].targetScale
                new == signsRef'[sign].targetScale
            IN  /\ RLe(ROne, new) /\ RLe(new, old)
                /\ RSub(new, ROne) = RMul(Rat(85, 100), RSub(old, ROne))
                /\ RLe(RSub(new, ROne),
                       RMul(Rat(1, 5), RPow(Rat(85, 100), steadyFrames')))

\* C19: whenever the pointer moves off every sign, onto another object or
\* onto empty space where no object is hit, the hover is none afterwards
\* (so before the next frame update), and while it is none every frame
\* moves every scale factor monotonically down toward 1.0, to within
\* 0.2 * 0.85^n of it after n frames.
C19_HoverClearedWhenPointerLeaves ==
    [][ /\ (PointerMotionStep /\ OffEverySign(lastObject')) =>
                hoveredSignRef' = NoNode
        /\ DecaysTowardRest ]_vars

\* the same, for the pointer moving onto an object that is not a sign
C19_HoverClearedOnOtherObject ==
    [][ /\ (PointerMoveStep /\ OffEverySign(lastObject')) =>
                hoveredSignRef' = NoNode
        /\ DecaysTowardRest ]_vars

\* the step just taken is a click
ClickStep == lastOp' = "click" /\ clicks' = clicks + 1

\* no step has changed the hover or any scale factor
HoverChannelUnchanged ==
    /\ hoveredSignRef' = hoveredSignRef
    /\ DOMAIN signsRef' = DOMAIN signsRef
    /\ \A sign \in DOMAIN signsRef :
           signsRef'[sign].targetScale = signsRef[sign].targetScale

\* no step has changed the transition, the camera position or the target
CameraChannelUnchanged ==
    /\ cameraTransitionRef' = cameraTransitionRef
    /\ cameraPosition' = cameraPosition
    /\ controlsTarget' = controlsTarget

\* C20: a click whose hit target is not a sign mesh leaves the transition,
\* the camera position, the orbit target, the hover and every scale factor
\* unchanged and does not stop propagation; a click on a sign mesh leaves
\* the hover and every scale factor unchanged; a pointer-move event leaves
\* the transition, the camera position and the orbit target unchanged.
C20_PointerEventsOwnChannel ==
    [][ /\ (ClickStep /\ OffEverySign(lastObject')) =>
                /\ CameraChannelUnchanged
                /\ HoverChannelUnchanged
                /\ ~eventStopped'
        /\ (ClickStep /\ ~OffEverySign(lastObject')) =>
                HoverChannelUnchanged
        /\ PointerMoveStep => CameraChannelUnchanged ]_vars

\* a click on the floor has arrived while a fly-to to SignB is half-way
\* and SignA is hovered and part-way to 1.2: it changed none of them
C20_Witness ==
    /\ lastOp = "click"
    /\ lastObject = 4
    /\ ~eventStopped
    /\ cameraTransitionRef.isAnimating
    /\ cameraTransitionRef.progress = Rat(1, 2)
    /\ focusedSign = 3
    /\ hoveredSignRef = 2
    /\ DOMAIN signsRef = {2, 3}
    /\ RLt(ROne, signsRef[2].targetScale)

=============================================================================
